---------------------------- MODULE Spec2Model ----------------------------
(***************************************************************************)
(* mkv-subtitle-extractor: the track-discovery parser                      *)
(* (enumerate_subtitle_tracks) and the extraction orchestrator             *)
(* (extract_subtitle_track) of src/src/lib.rs, with the pure helpers       *)
(* extension_for_format and sanitize_to_windows_path_characters.           *)
(* The binary's own copy of the parser (src/src/main.rs) is modelled as an  *)
(* operator, MainEnumerate, next to the library's.                         *)
(*                                                                         *)
(* Text is modelled character by character: a Rust &str / String is a      *)
(* sequence of one-character strings, so that trimming, searching and      *)
(* splitting are computed the way the code computes them.                  *)
(* Option<T> is a sequence of length <= 1: <<>> is None, <<x>> is Some(x). *)
(***************************************************************************)
EXTENDS Integers, Sequences, FiniteSets, TLC

VARIABLES
    lines,        \* enumerate_subtitle_tracks: the lines of the captured stderr
    i,            \* number of lines the for-loop has consumed
    current,      \* Option<SubtitleTrack>: the in-progress track
    result,       \* Vec<SubtitleTrack>
    ret,          \* Option<Result<Vec<SubtitleTrack>>>: the value returned
    epc,          \* position in enumerate_subtitle_tracks
    probe_status, \* Option<exit status> of the probing command
    path,         \* file name of the source media file
    selected,     \* the tracks the caller extracts, in order
    k,            \* number of extract_subtitle_track calls that returned
    pc,           \* position in the current extract_subtitle_track call
    fs,           \* the source file's directory: file name -> content
    fs0,          \* fs when the current call started
    output_path,  \* Option<name>: the final output path of the current call
    temp_path,    \* Option<name>: the temp path of the current call
    outcome,      \* Option<result> of the call that returned last
    prompts,      \* the pick() prompts shown during the current call
    invoked,      \* the external extraction commands run during the current call
    trace,        \* the steps the current call has taken
    history,      \* the values the calls of the run returned, in call order
    arg,          \* a string handed to one of the pure helper functions
    out           \* Option<record>: the helper applied and what it returned

enumVars == <<lines, i, current, result, ret, epc, probe_status>>
extractVars == <<path, selected, k, pc, fs, fs0, output_path, temp_path,
                 outcome, prompts, invoked, trace, history>>
pureVars == <<arg, out>>
vars == <<lines, i, current, result, ret, epc, probe_status,
          path, selected, k, pc, fs, fs0,
          output_path, temp_path, outcome, prompts, invoked, trace, history,
          arg, out>>

-----------------------------------------------------------------------------
(* Bounds of the model *)

\* longest diagnostic text, in lines
MaxLines == 3

\* most tracks the operator selects in one run
MaxSelected == 2

\* longest text handed to a pure helper function, in characters (the known
\* format names are handed over whatever their length)
MaxTextLen == 3

-----------------------------------------------------------------------------
(* Option<T> *)

None == <<>>

Some(x) == <<x>>

IsSome(o) == Len(o) = 1

Unwrap(o) == o[1]

-----------------------------------------------------------------------------
(* String literals of the source *)

StreamMarker ==
    <<"S","t","r","e","a","m"," ","#">>

SubtitleWord ==
    <<"S","u","b","t","i","t","l","e">>

SubtitleMarker ==
    <<"S","u","b","t","i","t","l","e",":">>

TitleKey ==
    <<"t","i","t","l","e">>

MsgNoSubtitle ==
    <<"N","o"," ","'","S","u","b","t","i","t","l","e",":","'"," ","i","n"," ","l","i","n","e",":"," ">>

MsgUnclosedParen ==
    <<"U","n","c","l","o","s","e","d"," ","p","a","r","e","n","t","h","e","s","i","s"," ","i","n"," ","l","i","n","e",":"," ">>

MsgNoColonNumeric ==
    <<"N","o"," ","c","o","l","o","n"," ","f","o","u","n","d"," ","i","n"," ","n","u","m","e","r","i","c","_","s","t","r",":"," ","'">>

MsgNoColonStream ==
    <<"N","o"," ","c","o","l","o","n"," ","f","o","u","n","d"," ","i","n"," ","s","t","r","e","a","m"," ","p","o","r","t","i","o","n",":"," ","'">>

\* core::num::ParseIntError's Display texts, reached through `?` on parse::<u32>()
MsgIntEmpty ==
    <<"c","a","n","n","o","t"," ","p","a","r","s","e"," ","i","n","t","e","g","e","r"," ","f","r","o","m"," ","e","m","p","t","y"," ","s","t","r","i","n","g">>

MsgIntInvalidDigit ==
    <<"i","n","v","a","l","i","d"," ","d","i","g","i","t"," ","f","o","u","n","d"," ","i","n"," ","s","t","r","i","n","g">>

MsgIntPosOverflow ==
    <<"n","u","m","b","e","r"," ","t","o","o"," ","l","a","r","g","e"," ","t","o"," ","f","i","t"," ","i","n"," ","t","a","r","g","e","t"," ","t","y","p","e">>

\* the format tokens extension_for_format knows
FormatSubrip ==
    <<"s","u","b","r","i","p">>

FormatAss ==
    <<"a","s","s">>

FormatPgs ==
    <<"h","d","m","v","_","p","g","s","_","s","u","b","t","i","t","l","e">>

FormatPgssub ==
    <<"p","g","s","s","u","b">>

\* the extensions extension_for_format returns
ExtSrt ==
    <<"s","r","t">>

ExtAss ==
    <<"a","s","s">>

ExtSup ==
    <<"s","u","p">>

ExtSub ==
    <<"s","u","b">>

\* "output.": the temp file's name up to its extension
TempStem ==
    <<"o","u","t","p","u","t",".">>

\* "0:s:": the stream selector up to the track's index
SelectorPrefix ==
    <<"0",":","s",":">>

MsgTempExists ==
    <<"T","e","m","p"," ","f","i","l","e"," ","a","l","r","e","a","d","y"," ","e","x","i","s","t","s",":"," ">>

MsgExtractFailed ==
    <<"F","a","i","l","e","d"," ","t","o"," ","e","x","t","r","a","c","t"," ","s","u","b","t","i","t","l","e"," ","t","r","a","c","k",":"," ">>

MsgNoTracks ==
    <<"N","o"," ","s","u","b","t","i","t","l","e"," ","t","r","a","c","k","s"," ","f","o","u","n","d"," ","i","n"," ">>

\* u32::MAX, as decimal digits
U32MaxDigits ==
    <<4,2,9,4,9,6,7,2,9,5>>

-----------------------------------------------------------------------------
(* str methods *)

SetMin(S) == CHOOSE x \in S : \A y \in S : x <= y

SetMax(S) == CHOOSE x \in S : \A y \in S : x >= y

\* char::is_whitespace, on the characters of the model's texts
IsWhitespace(c) == c \in {" ", "\t"}

\* str::trim_start
TrimStart(s) ==
    LET keep == {n \in 1..Len(s) : ~IsWhitespace(s[n])}
    IN  IF keep = {} THEN <<>> ELSE SubSeq(s, SetMin(keep), Len(s))

\* str::trim_end
TrimEnd(s) ==
    LET keep == {n \in 1..Len(s) : ~IsWhitespace(s[n])}
    IN  IF keep = {} THEN <<>> ELSE SubSeq(s, 1, SetMax(keep))

\* str::trim
Trim(s) == TrimEnd(TrimStart(s))

\* str::trim_end_matches(c)
TrimEndMatches(s, c) ==
    LET keep == {n \in 1..Len(s) : s[n] # c}
    IN  IF keep = {} THEN <<>> ELSE SubSeq(s, 1, SetMax(keep))

\* str::starts_with
StartsWith(s, p) == Len(s) >= Len(p) /\ SubSeq(s, 1, Len(p)) = p

\* str::find(pattern): the 1-based position of the first match, 0 for None
Find(s, p) ==
    LET at == {n \in 1..(Len(s) - Len(p) + 1) : SubSeq(s, n, n + Len(p) - 1) = p}
    IN  IF at = {} THEN 0 ELSE SetMin(at)

\* str::rfind(char): the 1-based position of the last match, 0 for None
RFind(s, c) ==
    LET at == {n \in 1..Len(s) : s[n] = c}
    IN  IF at = {} THEN 0 ELSE SetMax(at)

\* str::contains
Contains(s, p) == Find(s, p) # 0

\* str::split(|c| c.is_whitespace() || c == ',' || c == '(').next().unwrap_or("")
FirstToken(s) ==
    LET at == {n \in 1..Len(s) : IsWhitespace(s[n]) \/ s[n] \in {",", "("}}
    IN  IF at = {} THEN s ELSE SubSeq(s, 1, SetMin(at) - 1)

Digits == <<"0","1","2","3","4","5","6","7","8","9">>

IsDigit(c) == \E d \in 1..10 : Digits[d] = c

DigitVal(c) == (CHOOSE d \in 1..10 : Digits[d] = c) - 1

\* the digits of s without leading zeros
StripZeros(s) ==
    LET nz == {n \in 1..Len(s) : s[n] # "0"}
    IN  IF nz = {} THEN <<>> ELSE SubSeq(s, SetMin(nz), Len(s))

\* whether the decimal number s (no leading zeros) exceeds u32::MAX
ExceedsU32(s) ==
    \/ Len(s) > Len(U32MaxDigits)
    \/ /\ Len(s) = Len(U32MaxDigits)
       /\ \E n \in 1..Len(s) :
            /\ DigitVal(s[n]) > U32MaxDigits[n]
            /\ \A m \in 1..(n - 1) : DigitVal(s[m]) = U32MaxDigits[m]

RECURSIVE DecimalValue(_)
DecimalValue(s) ==
    IF s = <<>> THEN 0
    ELSE 10 * DecimalValue(SubSeq(s, 1, Len(s) - 1)) + DigitVal(s[Len(s)])

\* str::parse::<u32>(): [ok |-> TRUE, val |-> n] or [ok |-> FALSE, msg |-> text]
ParseU32(s) ==
    LET body == IF s # <<>> /\ s[1] = "+" THEN Tail(s) ELSE s
    IN  IF s = <<>> THEN [ok |-> FALSE, msg |-> MsgIntEmpty]
        ELSE IF body = <<>> \/ \E n \in 1..Len(body) : ~IsDigit(body[n])
            THEN [ok |-> FALSE, msg |-> MsgIntInvalidDigit]
        ELSE IF ExceedsU32(StripZeros(body))
            THEN [ok |-> FALSE, msg |-> MsgIntPosOverflow]
        ELSE [ok |-> TRUE, val |-> DecimalValue(StripZeros(body))]


-----------------------------------------------------------------------------
(* Result<T> *)

Ok(v) == [ok |-> TRUE, val |-> v]

Err(m) == [ok |-> FALSE, msg |-> m]

-----------------------------------------------------------------------------
(* enumerate_subtitle_tracks *)

\* struct SubtitleTrack
SubtitleTrack(index, lang, format, title) ==
    [stream_index |-> index, lang |-> lang, format |-> format, title |-> title]

\* the condition of the loop's if: a line that starts a subtitle stream
IsSubtitleHeader(line) ==
    StartsWith(TrimStart(line), StreamMarker) /\ Contains(line, SubtitleWord)

\* the (numeric_part, lang) of a header whose stream part has a '('
ParseWithParen(stream_part, open_paren, line) ==
    LET inside == SubSeq(stream_part, open_paren + 1, Len(stream_part))
        close_paren == Find(inside, <<")">>)
        lang_str == Some(SubSeq(inside, 1, close_paren - 1))
        numeric_str ==
            Trim(TrimEndMatches(SubSeq(stream_part, 1, open_paren - 1), ":"))
        idx == RFind(numeric_str, ":")
        num == ParseU32(SubSeq(numeric_str, idx + 1, Len(numeric_str)))
    IN  IF close_paren = 0 THEN Err(MsgUnclosedParen \o line)
        ELSE IF idx = 0 THEN Err(MsgNoColonNumeric \o numeric_str \o <<"'">>)
        ELSE IF ~num.ok THEN Err(num.msg)
        ELSE Ok([num |-> num.val, lang |-> lang_str])

\* ParseWithoutParen with the error paths dropped: a prefix without a colon or
\* with a stream index that is no number counts as stream 0
ParseWithoutParenLenient(stream_part) ==
    LET trimmed == Trim(TrimEndMatches(stream_part, ":"))
        idx == RFind(trimmed, ":")
        num == ParseU32(SubSeq(trimmed, idx + 1, Len(trimmed)))
    IN  Ok([num |-> IF idx # 0 /\ num.ok THEN num.val ELSE 0, lang |-> None])

\* the (numeric_part, lang) of a header whose stream part has no '('
ParseWithoutParen(stream_part) ==
    LET trimmed == Trim(TrimEndMatches(stream_part, ":"))
        idx == RFind(trimmed, ":")
        num == ParseU32(SubSeq(trimmed, idx + 1, Len(trimmed)))
    IN  IF idx = 0 THEN Err(MsgNoColonStream \o trimmed \o <<"'">>)
        ELSE IF ~num.ok THEN Err(num.msg)
        ELSE Ok([num |-> num.val, lang |-> None])

\* the format token that follows "Subtitle:"
ParseFormat(after_subtitle) == Trim(FirstToken(after_subtitle))

\* a subtitle header line parsed into a track, or the error returned
\* ParseHeader reading the language from a parenthesis after "Subtitle:" too
ParseHeaderAnyParen(line) ==
    LET line_trim == TrimStart(line)
        after_stream == Trim(SubSeq(line_trim, Len(StreamMarker) + 1, Len(line_trim)))
        at == Find(after_stream, SubtitleMarker)
        left == Trim(SubSeq(after_stream, 1, at - 1))
        after_subtitle ==
            Trim(SubSeq(after_stream, at + Len(SubtitleMarker), Len(after_stream)))
        stream_part == Trim(TrimEndMatches(left, ":"))
        open_paren == Find(stream_part, <<"(">>)
        head == IF open_paren # 0
                THEN ParseWithParen(stream_part, open_paren, line)
                ELSE ParseWithoutParen(stream_part)
        late_open == Find(after_subtitle, <<"(">>)
        late_inside == SubSeq(after_subtitle, late_open + 1, Len(after_subtitle))
        late_close == Find(late_inside, <<")">>)
    IN  IF at = 0 THEN Err(MsgNoSubtitle \o line)
        ELSE IF ~head.ok THEN head
        ELSE Ok(SubtitleTrack(head.val.num,
                              IF late_open # 0 /\ late_close # 0
                              THEN Some(SubSeq(late_inside, 1, late_close - 1))
                              ELSE head.val.lang,
                              ParseFormat(after_subtitle), None))

ParseHeader(line) ==
    LET line_trim == TrimStart(line)
        after_stream == Trim(SubSeq(line_trim, Len(StreamMarker) + 1, Len(line_trim)))
        at == Find(after_stream, SubtitleMarker)
        left == Trim(SubSeq(after_stream, 1, at - 1))
        after_subtitle ==
            Trim(SubSeq(after_stream, at + Len(SubtitleMarker), Len(after_stream)))
        stream_part == Trim(TrimEndMatches(left, ":"))
        open_paren == Find(stream_part, <<"(">>)
        head == IF open_paren # 0
                THEN ParseWithParen(stream_part, open_paren, line)
                ELSE ParseWithoutParen(stream_part)
    IN  IF at = 0 THEN Err(MsgNoSubtitle \o line)
        ELSE IF ~head.ok THEN head
        ELSE Ok(SubtitleTrack(head.val.num, head.val.lang,
                              ParseFormat(after_subtitle), None))

\* ApplyMetadata without the emptiness test: a title line with empty text
\* replaces an earlier title
ApplyMetadataAnyText(track, line) ==
    LET colon_pos == Find(line, <<":">>)
        after_colon == Trim(SubSeq(line, colon_pos + 1, Len(line)))
    IN  IF StartsWith(TrimStart(line), TitleKey) /\ colon_pos # 0
        THEN [track EXCEPT !.title = Some(after_colon)]
        ELSE track

\* the else branch of the loop, for an in-progress track: a "title" line with
\* non-empty text after its first colon sets the title
ApplyMetadata(track, line) ==
    LET colon_pos == Find(line, <<":">>)
        after_colon == Trim(SubSeq(line, colon_pos + 1, Len(line)))
    IN  IF /\ StartsWith(TrimStart(line), TitleKey)
           /\ colon_pos # 0
           /\ after_colon # <<>>
        THEN [track EXCEPT !.title = Some(after_colon)]
        ELSE track

\* `if let Some(t) = current.take() { result.push(t); }`
Finalize(cur, res) == IF IsSome(cur) THEN Append(res, Unwrap(cur)) ELSE res

\* the then branch of the loop: finalize the previous track, parse the header
HeaderBranch(st, line) ==
    LET parsed == ParseHeader(line)
    IN  IF parsed.ok
        THEN [current |-> Some(parsed.val),
              result |-> Finalize(st.current, st.result), ret |-> None]
        ELSE [current |-> None,
              result |-> Finalize(st.current, st.result), ret |-> Some(parsed)]

\* the else branch of the loop: every line that is not a subtitle header
MetadataBranch(st, line) ==
    [current |-> IF IsSome(st.current)
                 THEN Some(ApplyMetadata(Unwrap(st.current), line))
                 ELSE None,
     result |-> st.result, ret |-> None]

\* one iteration of `for line in lines.iter()`
LoopBody(st, line) ==
    IF IsSubtitleHeader(line) THEN HeaderBranch(st, line)
    ELSE MetadataBranch(st, line)

\* Renumber left out: every track keeps the index its header line carried
RenumberKeepsRaw(res) == res

\* "Update the indices to be 0-based"
\* Renumber rebuilding each track from its header fields, without the title
RenumberDropsTitle(res) ==
    [n \in 1..Len(res) |-> SubtitleTrack(n - 1, res[n].lang, res[n].format, None)]

Renumber(res) == [n \in 1..Len(res) |-> [res[n] EXCEPT !.stream_index = n - 1]]

\* the loop over the first n lines of ls, stopping at the first error
RECURSIVE Scan(_, _)
Scan(ls, n) ==
    IF n = 0 THEN [current |-> None, result |-> <<>>, ret |-> None]
    ELSE LET before == Scan(ls, n - 1)
         IN  IF IsSome(before.ret) THEN before ELSE LoopBody(before, ls[n])

\* the value enumerate_subtitle_tracks returns for the captured lines ls
Enumerate(ls) ==
    LET st == Scan(ls, Len(ls))
    IN  IF IsSome(st.ret) THEN Unwrap(st.ret)
        ELSE Ok(Renumber(Finalize(st.current, st.result)))

-----------------------------------------------------------------------------
(* Lines of diagnostic text the model draws from *)

\* "  Stream #0:2(eng): Subtitle: subrip (default)"
LineSubEng ==
    <<" "," ","S","t","r","e","a","m"," ","#","0",":","2","(","e","n","g",")",":"," ","S","u","b","t","i","t","l","e",":"," ","s","u","b","r","i","p"," ","(","d","e","f","a","u","l","t",")">>

\* "  Stream #0:3: Subtitle: hdmv_pgs_subtitle, 1920x1080"
LineSubPgs ==
    <<" "," ","S","t","r","e","a","m"," ","#","0",":","3",":"," ","S","u","b","t","i","t","l","e",":"," ","h","d","m","v","_","p","g","s","_","s","u","b","t","i","t","l","e",","," ","1","9","2","0","x","1","0","8","0">>

\* "  Stream #0:0: Video: h264": the header of a stream that is no subtitle
LineVideo ==
    <<" "," ","S","t","r","e","a","m"," ","#","0",":","0",":"," ","V","i","d","e","o",":"," ","h","2","6","4">>

\* "    title           : English subs"
LineTitleEng ==
    <<" "," "," "," ","t","i","t","l","e"," "," "," "," "," "," "," "," "," "," "," ",":"," ","E","n","g","l","i","s","h"," ","s","u","b","s">>

\* "    title           : ": a title line with empty text
LineTitleEmpty ==
    <<" "," "," "," ","t","i","t","l","e"," "," "," "," "," "," "," "," "," "," "," ",":"," ">>

\* "    title : a/b: c": a second title, with colons and a slash in its text
LineTitleSlash ==
    <<" "," "," "," ","t","i","t","l","e"," ",":"," ","a","/","b",":"," ","c">>

\* "  Metadata:"
LineMetadata ==
    <<" "," ","M","e","t","a","d","a","t","a",":">>

\* "  Stream #0:4: Subtitle ass": no "Subtitle:" marker
LineNoMarker ==
    <<" "," ","S","t","r","e","a","m"," ","#","0",":","4",":"," ","S","u","b","t","i","t","l","e"," ","a","s","s">>

\* "  Stream #0:5(eng: Subtitle: ass": unterminated parenthesis
LineUnclosed ==
    <<" "," ","S","t","r","e","a","m"," ","#","0",":","5","(","e","n","g",":"," ","S","u","b","t","i","t","l","e",":"," ","a","s","s">>

\* "  Stream #5(eng): Subtitle: ass": no colon in the numeric prefix, with a tag
LineNoColonParen ==
    <<" "," ","S","t","r","e","a","m"," ","#","5","(","e","n","g",")",":"," ","S","u","b","t","i","t","l","e",":"," ","a","s","s">>

\* "  Stream #6: Subtitle: ass": no colon in the numeric prefix, without a tag
LineNoColon ==
    <<" "," ","S","t","r","e","a","m"," ","#","6",":"," ","S","u","b","t","i","t","l","e",":"," ","a","s","s">>

\* "  Stream #0:x: Subtitle: ass": a stream index that is no number
LineNonNumeric ==
    <<" "," ","S","t","r","e","a","m"," ","#","0",":","x",":"," ","S","u","b","t","i","t","l","e",":"," ","a","s","s">>

\* "  Stream #0:6: Subtitle: (default)": no tag, and a parenthesis right after
\* "Subtitle:"
LineParenFormat ==
    <<" "," ","S","t","r","e","a","m"," ","#","0",":","6",":"," ","S","u","b","t","i","t","l","e",":"," ","(","d","e","f","a","u","l","t",")">>

WellFormedHeaders == {LineSubEng, LineSubPgs, LineParenFormat}

MalformedHeaders ==
    {LineNoMarker, LineUnclosed, LineNoColonParen, LineNoColon, LineNonNumeric}

OtherLines ==
    {LineVideo, LineTitleEng, LineTitleEmpty, LineTitleSlash, LineMetadata}

LineSet == WellFormedHeaders \cup MalformedHeaders \cup OtherLines

\* every diagnostic text of at most MaxLines lines
Texts == UNION {[1..n -> LineSet] : n \in 0..MaxLines}

-----------------------------------------------------------------------------
(* enumerate_subtitle_tracks, step by step *)

\* the state after construction of the locals: the probing command has exited
\* (with a failure status, as it does when no output file is named), its stderr
\* is captured, nothing is consumed
InitEnum ==
    /\ lines \in Texts
    /\ i = 0
    /\ current = None
    /\ result = <<>>
    /\ ret = None
    /\ epc = "loop"
    /\ probe_status = Some(1)
    /\ path = <<>>
    /\ selected = <<>>
    /\ k = 0
    /\ pc = "idle"
    /\ fs = <<>>
    /\ fs0 = <<>>
    /\ output_path = None
    /\ temp_path = None
    /\ outcome = None
    /\ prompts = <<>>
    /\ invoked = <<>>
    /\ trace = <<>>
    /\ history = <<>>
    /\ arg = <<>>
    /\ out = None

\* the exit statuses of the probing command: success, and the failure it reports
\* because no output file was named
ExitStatuses == {0, 1}

\* EnumProbe treating a non-zero exit status as a failure of the call
EnumProbeChecksStatus ==
    /\ epc = "probe"
    /\ \E s \in ExitStatuses :
        /\ probe_status' = Some(s)
        /\ ret' = IF s # 0 THEN Some(Err(<<"f","a","i","l","e","d">>)) ELSE None
        /\ epc' = IF s # 0 THEN "done" ELSE "loop"
    /\ UNCHANGED <<lines, i, current, result, extractVars, pureVars>>

\* the probing command has run: its stderr is captured as `lines`, its exit
\* status is not looked at
EnumProbe ==
    /\ epc = "probe"
    /\ \E s \in ExitStatuses : probe_status' = Some(s)
    /\ epc' = "loop"
    /\ UNCHANGED <<lines, i, current, result, ret, extractVars, pureVars>>

\* one loop iteration on a subtitle header line
EnumHeaderLine ==
    /\ epc = "loop"
    /\ i < Len(lines)
    /\ IsSubtitleHeader(lines[i + 1])
    /\ LET st == HeaderBranch([current |-> current, result |-> result,
                               ret |-> None], lines[i + 1])
       IN  /\ current' = st.current
           /\ result' = st.result
           /\ ret' = st.ret
           /\ epc' = IF IsSome(st.ret) THEN "done" ELSE "loop"
    /\ i' = i + 1
    /\ UNCHANGED <<lines, probe_status, extractVars, pureVars>>

\* one loop iteration on any other line
EnumOtherLine ==
    /\ epc = "loop"
    /\ i < Len(lines)
    /\ ~IsSubtitleHeader(lines[i + 1])
    /\ LET st == MetadataBranch([current |-> current, result |-> result,
                                 ret |-> None], lines[i + 1])
       IN  /\ current' = st.current
           /\ result' = st.result
    /\ i' = i + 1
    /\ UNCHANGED <<lines, probe_status, ret, epc, extractVars, pureVars>>

\* after the loop: "Finalize the last track if it exists"
EnumFinalize ==
    /\ epc = "loop"
    /\ i = Len(lines)
    /\ result' = Finalize(current, result)
    /\ current' = None
    /\ epc' = "renumber"
    /\ UNCHANGED <<lines, probe_status, i, ret, extractVars, pureVars>>

\* the renumbering pass and `Ok(result)`
EnumRenumber ==
    /\ epc = "renumber"
    /\ result' = Renumber(result)
    /\ ret' = Some(Ok(result'))
    /\ epc' = "done"
    /\ UNCHANGED <<lines, probe_status, i, current, extractVars, pureVars>>

NextEnum ==
    \/ EnumHeaderLine
    \/ EnumOtherLine
    \/ EnumFinalize
    \/ EnumRenumber

SpecEnum == InitEnum /\ [][NextEnum]_vars

\* the lines of the texts the probing command writes in the calls that start
\* with it
ProbeLineSet ==
    {LineSubEng, LineSubPgs, LineVideo, LineTitleEng, LineNoMarker, LineNonNumeric}

ProbeTexts == UNION {[1..n -> ProbeLineSet] : n \in 0..MaxLines}

\* the call from its start: the probing command has not run yet
InitProbe ==
    /\ lines \in ProbeTexts
    /\ i = 0
    /\ current = None
    /\ result = <<>>
    /\ ret = None
    /\ epc = "probe"
    /\ probe_status = None
    /\ path = <<>>
    /\ selected = <<>>
    /\ k = 0
    /\ pc = "idle"
    /\ fs = <<>>
    /\ fs0 = <<>>
    /\ output_path = None
    /\ temp_path = None
    /\ outcome = None
    /\ prompts = <<>>
    /\ invoked = <<>>
    /\ trace = <<>>
    /\ history = <<>>
    /\ arg = <<>>
    /\ out = None

NextProbe ==
    \/ EnumProbe
    \/ EnumHeaderLine
    \/ EnumOtherLine
    \/ EnumFinalize
    \/ EnumRenumber

SpecProbe == InitProbe /\ [][NextProbe]_vars

-----------------------------------------------------------------------------
(* Properties of enumerate_subtitle_tracks, checked under SpecEnum *)

\* the lines of the text that are subtitle header lines, well-formed or not
IsHeaderLine(line) == line \in WellFormedHeaders \cup MalformedHeaders

HeaderPositions(ls) == {n \in 1..Len(ls) : IsHeaderLine(ls[n])}

\* the position in ls of its n-th subtitle header line
NthHeader(ls, n) ==
    CHOOSE p \in HeaderPositions(ls) :
        Cardinality({q \in HeaderPositions(ls) : q <= p}) = n

\* the position after the last line that belongs to the n-th header's block
BlockEnd(ls, n) ==
    IF n < Cardinality(HeaderPositions(ls)) THEN NthHeader(ls, n + 1)
    ELSE Len(ls) + 1

\* the format and language tag the well-formed header lines of LineSet carry
ExpectedFormat(line) ==
    IF line = LineSubEng THEN FormatSubrip
    ELSE IF line = LineSubPgs THEN FormatPgs
    ELSE <<>>

ExpectedLang(line) == IF line = LineSubEng THEN Some(<<"e","n","g">>) ELSE None

NoMalformedHeader == \A n \in 1..Len(lines) : lines[n] \notin MalformedHeaders

Returned == epc = "done" /\ IsSome(ret)

ReturnedOk == Returned /\ Unwrap(ret).ok

ReturnedErr == Returned /\ ~Unwrap(ret).ok

IsNonSubtitleHeader(line) ==
    StartsWith(TrimStart(line), StreamMarker) /\ ~Contains(line, SubtitleWord)

IsTitleLine(line) == StartsWith(TrimStart(line), TitleKey)

\* line n comes after a non-subtitle stream header, with no subtitle header between
FollowsNonSubtitleHeader(ls, n) ==
    \E m \in 1..(n - 1) :
        /\ IsNonSubtitleHeader(ls[m])
        /\ \A j \in (m + 1)..(n - 1) : ~IsHeaderLine(ls[j])

\* the titles of all tracks parsed so far, finalized or in progress
TitlesSoFar == [n \in 1..Len(Finalize(current, result)) |->
                    Finalize(current, result)[n].title]

\* C7: a "Stream #" line that does not mention "Subtitle" finalizes the in-progress
\* track, so a title line that follows it (before the next subtitle header) sets no
\* track's title.
C7_NoBleedAcrossNonSubtitleStream ==
    [][(/\ epc = "loop"
        /\ i < Len(lines)
        /\ IsTitleLine(lines[i + 1])
        /\ FollowsNonSubtitleHeader(lines, i + 1))
       => TitlesSoFar' = TitlesSoFar]_vars

\* the trimmed text after the first colon of a title line; empty for other lines
TitleText(line) ==
    IF IsTitleLine(line) /\ Contains(line, <<":">>)
    THEN Trim(SubSeq(line, Find(line, <<":">>) + 1, Len(line)))
    ELSE <<>>

\* the positions of the title lines with text in the block of the n-th header
TitledIn(ls, n) ==
    {p \in (NthHeader(ls, n) + 1)..(BlockEnd(ls, n) - 1) : TitleText(ls[p]) # <<>>}

\* C8: the title of the n-th track is the text of the last title line with
\* non-empty text between the n-th header and the next header (or the end of the
\* input), and is absent when there is none.
C8_TitleScopedToBlock ==
    ReturnedOk =>
        \A n \in 1..Len(Unwrap(ret).val) :
            Unwrap(ret).val[n].title =
                IF TitledIn(lines, n) = {} THEN None
                ELSE Some(TitleText(lines[SetMax(TitledIn(lines, n))]))

\* C8 witness: a track whose block holds a title line with text followed by a
\* title line with empty text came back with the title of the first.
C8_Witness ==
    /\ ReturnedOk
    /\ Len(lines) = 3
    /\ lines[1] = LineSubPgs
    /\ lines[2] = LineTitleEng
    /\ lines[3] = LineTitleEmpty
    /\ Unwrap(ret).val[1].title =
            Some(<<"E","n","g","l","i","s","h"," ","s","u","b","s">>)

\* C9: a malformed subtitle header line anywhere in the text makes the call return
\* an error: no track list comes back.
C9_MalformedHeaderAborts ==
    (epc = "done" /\ ~NoMalformedHeader) => ReturnedErr

\* C9 witness: the call failed on a malformed header that came after a well-formed
\* one and before another.
C9_Witness ==
    /\ ReturnedErr
    /\ Len(lines) = 3
    /\ lines[1] \in WellFormedHeaders
    /\ lines[2] \in MalformedHeaders
    /\ lines[3] \in WellFormedHeaders

\* C10: the error a failed call returns includes the text of the offending header
\* line (the line the loop consumed last).
C10_ErrorCarriesLine ==
    ReturnedErr => Contains(Unwrap(ret).msg, lines[i])

-----------------------------------------------------------------------------
(* File names and the directory of the source file *)

\* Path::file_stem of a file name: the name up to its last '.', the whole name
\* when it has no '.' after its first character
FileStem(name) ==
    LET dot == RFind(name, ".")
    IN  IF dot <= 1 THEN name ELSE SubSeq(name, 1, dot - 1)

\* Display of a u32
RECURSIVE DecimalString(_)
DecimalString(n) ==
    IF n < 10 THEN <<Digits[n + 1]>>
    ELSE DecimalString(n \div 10) \o <<Digits[(n % 10) + 1]>>

\* extension_for_format without the "pgssub" alternative of the PGS arm
ExtensionForFormatNoAlias(fmt) ==
    IF fmt = FormatSubrip THEN ExtSrt
    ELSE IF fmt = FormatAss THEN ExtAss
    ELSE IF fmt = FormatPgs THEN ExtSup
    ELSE ExtSub

\* extension_for_format
ExtensionForFormat(fmt) ==
    IF fmt = FormatSubrip THEN ExtSrt
    ELSE IF fmt = FormatAss THEN ExtAss
    ELSE IF fmt = FormatPgs \/ fmt = FormatPgssub THEN ExtSup
    ELSE ExtSub

\* the `-f` container format of the extraction command; empty for none
ContainerFormat(fmt) ==
    IF fmt = FormatSubrip THEN ExtSrt
    ELSE IF fmt = FormatAss THEN ExtAss
    ELSE IF fmt = FormatPgs \/ fmt = FormatPgssub THEN ExtSup
    ELSE <<>>

ForbiddenChars == {"/", "\\", ":", "*", "\"", "<", ">", "|"}

\* sanitize_to_windows_path_characters dropping the forbidden characters
SanitizeDropping(segment) ==
    SelectSeq(segment, LAMBDA c : c \notin ForbiddenChars)

\* sanitize_to_windows_path_characters
Sanitize(segment) ==
    [n \in 1..Len(segment) |->
        IF segment[n] \in ForbiddenChars THEN "_" ELSE segment[n]]

\* OutputName without the index component
OutputNameWithoutIndex(p, track) ==
    LET base == FileStem(p)
        withLang == IF IsSome(track.lang)
                    THEN base \o <<".">> \o Unwrap(track.lang)
                    ELSE base
        withTitle == IF IsSome(track.title) /\ Sanitize(Unwrap(track.title)) # <<>>
                     THEN withLang \o <<".">> \o Sanitize(Unwrap(track.title))
                     ELSE withLang
    IN  withTitle \o <<".">> \o ExtensionForFormat(track.format)

\* the file name of the final output: fname
OutputName(p, track) ==
    LET base == FileStem(p) \o <<".">> \o DecimalString(track.stream_index)
        withLang == IF IsSome(track.lang)
                    THEN base \o <<".">> \o Unwrap(track.lang)
                    ELSE base
        withTitle == IF IsSome(track.title) /\ Sanitize(Unwrap(track.title)) # <<>>
                     THEN withLang \o <<".">> \o Sanitize(Unwrap(track.title))
                     ELSE withLang
    IN  withTitle \o <<".">> \o ExtensionForFormat(track.format)

\* the file name of the temp file: temp_name
TempName(track) == TempStem \o ExtensionForFormat(track.format)

\* Selector counting the subtitle streams from 1
SelectorOneBased(track) == SelectorPrefix \o DecimalString(track.stream_index + 1)

\* the `-map` argument of the extraction command
Selector(track) == SelectorPrefix \o DecimalString(track.stream_index)

\* A directory is a function from the names of its files to their contents.
\* fs::try_exists
Exists(dir, name) == name \in DOMAIN dir

\* the content at a name: Some(content), or None when no such file exists
FileAt(dir, name) == IF name \in DOMAIN dir THEN Some(dir[name]) ELSE None

\* a file created or replaced
Put(dir, name, content) ==
    [q \in DOMAIN dir \cup {name} |-> IF q = name THEN content ELSE dir[q]]

\* fs::remove_file
RemoveFile(dir, name) == [q \in DOMAIN dir \ {name} |-> dir[q]]

\* fs::rename: `to` is replaced by `from`, which is gone afterwards
RenameFile(dir, from, to) ==
    [q \in (DOMAIN dir \ {from}) \cup {to} |-> IF q = to THEN dir[from] ELSE dir[q]]

-----------------------------------------------------------------------------
(* What the environment supplies *)

\* "movie.mkv"
NameMovie ==
    <<"m","o","v","i","e",".","m","k","v">>

\* "output.srt": a media file that carries the name of the temp file
NameOutput == TempStem \o ExtSrt

SourceNames == {NameMovie, NameOutput}

\* the text of a std::io::Error
IoErrorText ==
    <<"A","c","c","e","s","s"," ","i","s"," ","d","e","n","i","e","d",".">>

\* the text of the picker's error when the operator made no selection
PickErrorText ==
    <<"n","o"," ","s","e","l","e","c","t","i","o","n">>

\* what the external command wrote to stderr when it failed
StderrText ==
    <<"S","t","r","e","a","m"," ","m","a","p"," ","'","0",":","s",":","9","'"," ","m","a","t","c","h","e","s"," ","n","o"," ","s","t","r","e","a","m","s",".">>

\* contents of files
Media == <<"media">>

OldOutput == <<"old">>

StaleTemp == <<"stale">>

Partial == <<"partial">>

\* what a successful extraction command writes for a stream selector
Extracted(selector) == <<"stream">> \o selector

\* "  Stream #0:7(a/b): Subtitle: ass": a language tag with a path separator
LineSubSlashLang ==
    <<" "," ","S","t","r","e","a","m"," ","#","0",":","7","(","a","/","b",")",":"," ","S","u","b","t","i","t","l","e",":"," ","a","s","s">>

\* "  Stream #0:8(): Subtitle: subrip": an empty language tag
LineSubEmptyLang ==
    <<" "," ","S","t","r","e","a","m"," ","#","0",":","8","(",")",":"," ","S","u","b","t","i","t","l","e",":"," ","s","u","b","r","i","p">>

\* the diagnostic texts whose tracks the runs of the model extract
RunTexts ==
    { <<LineSubEng, LineSubPgs>>,
      <<LineSubEng, LineTitleEng, LineSubEng>>,
      <<LineSubPgs, LineTitleSlash>>,
      <<LineVideo, LineMetadata>>,
      <<LineSubSlashLang>>,
      <<LineSubEmptyLang, LineTitleEng>>,
      <<LineSubEng, LineSubEng>> }

\* the final and temp names the tracks of a list resolve to
OutputNames(p, tracks) == {OutputName(p, tracks[n]) : n \in 1..Len(tracks)}

TempNames(tracks) == {TempName(tracks[n]) : n \in 1..Len(tracks)}

\* a directory holding the source file and the files `pre` left by earlier runs
InitialDir(p, pre, tracks) ==
    [q \in {p} \cup pre |->
        IF q = p THEN Media
        ELSE IF q \in TempNames(tracks) THEN StaleTemp
        ELSE OldOutput]

\* pick_many: the non-empty selections of at most MaxSelected distinct tracks
Selections(tracks) ==
    LET picks == UNION {[1..n -> 1..Len(tracks)] : n \in 1..MaxSelected}
    IN  {[n \in 1..Len(f) |-> tracks[f[n]]] :
            f \in {g \in picks : \A a, b \in 1..Len(g) : a # b => g[a] # g[b]}}

-----------------------------------------------------------------------------
(* A run: pick_subtitle_tracks, then extract_subtitle_track per selected track *)

\* enumerate_subtitle_tracks has returned Ok; nothing is selected yet
Init ==
    /\ lines \in RunTexts
    /\ i = Len(lines)
    /\ current = None
    /\ ret = Some(Enumerate(lines))
    /\ Unwrap(ret).ok
    /\ result = Unwrap(ret).val
    /\ epc = "done"
    /\ probe_status = Some(1)
    /\ path \in SourceNames
    /\ selected = <<>>
    /\ k = 0
    /\ pc = "pick"
    /\ \E pre \in SUBSET (OutputNames(path, result) \cup TempNames(result)) :
            fs = InitialDir(path, pre, result)
    /\ fs0 = fs
    /\ output_path = None
    /\ temp_path = None
    /\ outcome = None
    /\ prompts = <<>>
    /\ invoked = <<>>
    /\ trace = <<>>
    /\ history = <<>>
    /\ arg = <<>>
    /\ out = None

\* the track of the call in progress
Track == selected[k + 1]

\* Returns with a loop that goes on to the next track after an Err as well
ReturnsAndContinues(res) ==
    /\ outcome' = Some(res)
    /\ history' = Append(history, res)
    /\ k' = k + 1
    /\ pc' = IF k + 1 = Len(selected) THEN "finished" ELSE "idle"

\* the call returns res; the caller's loop goes on after Ok and ends on Err
Returns(res) ==
    /\ outcome' = Some(res)
    /\ history' = Append(history, res)
    /\ k' = k + 1
    /\ pc' = IF ~res.ok THEN "failed"
             ELSE IF k + 1 = Len(selected) THEN "finished"
             ELSE "idle"

\* PickNoTracks without the is_empty test: the empty list goes to the prompt
PickNoTracksPrompts ==
    /\ pc = "pick"
    /\ result = <<>>
    /\ prompts' = Append(prompts, [about |-> "tracks", choice |-> "none"])
    /\ outcome' = Some(Err(PickErrorText))
    /\ pc' = "failed"
    /\ UNCHANGED <<enumVars, pureVars, path, selected, k, history, fs, fs0,
                   output_path, temp_path, invoked, trace>>

\* pick_subtitle_tracks: no tracks were found
PickNoTracks ==
    /\ pc = "pick"
    /\ result = <<>>
    /\ outcome' = Some(Err(MsgNoTracks \o path))
    /\ pc' = "failed"
    /\ UNCHANGED <<enumVars, pureVars, path, selected, k, history, fs, fs0,
                   output_path, temp_path, prompts, invoked, trace>>

\* pick_subtitle_tracks: the operator made no selection
PickCancelled ==
    /\ pc = "pick"
    /\ result # <<>>
    /\ prompts' = Append(prompts, [about |-> "tracks", choice |-> "none"])
    /\ outcome' = Some(Err(PickErrorText))
    /\ pc' = "failed"
    /\ UNCHANGED <<enumVars, pureVars, path, selected, k, history, fs, fs0,
                   output_path, temp_path, invoked, trace>>

\* pick_subtitle_tracks: the operator selected tracks
PickTracks ==
    /\ pc = "pick"
    /\ result # <<>>
    /\ selected' \in Selections(result)
    /\ prompts' = Append(prompts, [about |-> "tracks", choice |-> "selected"])
    /\ pc' = "idle"
    /\ UNCHANGED <<enumVars, pureVars, path, k, history, fs, fs0, output_path,
                   temp_path, outcome, invoked, trace>>

\* extract_subtitle_track is called: the extension and the final path
BeginExtract ==
    /\ pc = "idle"
    /\ k < Len(selected)
    /\ output_path' = Some(OutputName(path, Track))
    /\ temp_path' = None
    /\ fs0' = fs
    /\ outcome' = None
    /\ prompts' = <<>>
    /\ invoked' = <<>>
    /\ trace' = <<"Start">>
    /\ pc' = "check_final"
    /\ UNCHANGED <<enumVars, pureVars, path, selected, k, history, fs>>

\* try_exists(&output_path) fails
FinalExistsError ==
    /\ pc = "check_final"
    /\ trace' = Append(trace, "CheckFinalCollision")
    /\ Returns(Err(IoErrorText))
    /\ UNCHANGED <<enumVars, pureVars, path, selected, fs, fs0, output_path,
                   temp_path, prompts, invoked>>

\* no file at the final path: on to the temp path
FinalAbsent ==
    /\ pc = "check_final"
    /\ ~Exists(fs, Unwrap(output_path))
    /\ trace' = Append(trace, "CheckFinalCollision")
    /\ temp_path' = Some(TempName(Track))
    /\ pc' = "check_temp"
    /\ UNCHANGED <<enumVars, pureVars, path, selected, k, history, fs, fs0,
                   output_path, outcome, prompts, invoked>>

\* FinalOverwrite deleting the existing output up front
FinalOverwriteDeletes ==
    /\ pc = "check_final"
    /\ Exists(fs, Unwrap(output_path))
    /\ trace' = Append(trace, "CheckFinalCollision")
    /\ prompts' = Append(prompts, [about |-> "final", choice |-> "Overwrite"])
    /\ fs' = RemoveFile(fs, Unwrap(output_path))
    /\ temp_path' = Some(TempName(Track))
    /\ pc' = "check_temp"
    /\ UNCHANGED <<enumVars, pureVars, path, selected, k, history, fs0,
                   output_path, outcome, invoked>>

\* a file at the final path, and the operator chose Overwrite
FinalOverwrite ==
    /\ pc = "check_final"
    /\ Exists(fs, Unwrap(output_path))
    /\ trace' = Append(trace, "CheckFinalCollision")
    /\ prompts' = Append(prompts, [about |-> "final", choice |-> "Overwrite"])
    /\ temp_path' = Some(TempName(Track))
    /\ pc' = "check_temp"
    /\ UNCHANGED <<enumVars, pureVars, path, selected, k, history, fs, fs0,
                   output_path, outcome, invoked>>

\* FinalSkip with the answer ignored: the call goes on to the temp path
FinalSkipProceeds ==
    /\ pc = "check_final"
    /\ Exists(fs, Unwrap(output_path))
    /\ trace' = Append(trace, "CheckFinalCollision")
    /\ prompts' = Append(prompts, [about |-> "final", choice |-> "Skip"])
    /\ temp_path' = Some(TempName(Track))
    /\ pc' = "check_temp"
    /\ UNCHANGED <<enumVars, pureVars, path, selected, k, history, fs, fs0,
                   output_path, outcome, invoked>>

\* a file at the final path, and the operator chose Skip
FinalSkip ==
    /\ pc = "check_final"
    /\ Exists(fs, Unwrap(output_path))
    /\ trace' = Append(trace, "CheckFinalCollision")
    /\ prompts' = Append(prompts, [about |-> "final", choice |-> "Skip"])
    /\ Returns(Ok(None))
    /\ UNCHANGED <<enumVars, pureVars, path, selected, fs, fs0, output_path,
                   temp_path, invoked>>

\* a file at the final path, and the operator made no selection
FinalCancelled ==
    /\ pc = "check_final"
    /\ Exists(fs, Unwrap(output_path))
    /\ trace' = Append(trace, "CheckFinalCollision")
    /\ prompts' = Append(prompts, [about |-> "final", choice |-> "none"])
    /\ Returns(Err(PickErrorText))
    /\ UNCHANGED <<enumVars, pureVars, path, selected, fs, fs0, output_path,
                   temp_path, invoked>>

\* try_exists(&temp_path) fails
TempExistsError ==
    /\ pc = "check_temp"
    /\ trace' = Append(trace, "CheckTempCollision")
    /\ Returns(Err(IoErrorText))
    /\ UNCHANGED <<enumVars, pureVars, path, selected, fs, fs0, output_path,
                   temp_path, prompts, invoked>>

\* TempAbsent without the existence test: the call goes on whatever is there
TempUnchecked ==
    /\ pc = "check_temp"
    /\ trace' = Append(trace, "CheckTempCollision")
    /\ pc' = "invoking"
    /\ UNCHANGED <<enumVars, pureVars, path, selected, k, history, fs, fs0,
                   output_path, temp_path, outcome, prompts, invoked>>

\* no file at the temp path: on to the external command
TempAbsent ==
    /\ pc = "check_temp"
    /\ ~Exists(fs, Unwrap(temp_path))
    /\ trace' = Append(trace, "CheckTempCollision")
    /\ pc' = "invoking"
    /\ UNCHANGED <<enumVars, pureVars, path, selected, k, history, fs, fs0,
                   output_path, temp_path, outcome, prompts, invoked>>

\* TempOverwrite leaving the stale temp file for the command to replace
TempOverwriteKeeps ==
    /\ pc = "check_temp"
    /\ Exists(fs, Unwrap(temp_path))
    /\ trace' = Append(trace, "CheckTempCollision")
    /\ prompts' = Append(prompts, [about |-> "temp", choice |-> "Overwrite"])
    /\ fs' = fs
    /\ pc' = "invoking"
    /\ UNCHANGED <<enumVars, pureVars, path, selected, k, history, fs0,
                   output_path, temp_path, outcome, invoked>>

\* a file at the temp path, the operator chose Overwrite: remove_file succeeds
TempOverwrite ==
    /\ pc = "check_temp"
    /\ Exists(fs, Unwrap(temp_path))
    /\ trace' = Append(trace, "CheckTempCollision")
    /\ prompts' = Append(prompts, [about |-> "temp", choice |-> "Overwrite"])
    /\ fs' = RemoveFile(fs, Unwrap(temp_path))
    /\ pc' = "invoking"
    /\ UNCHANGED <<enumVars, pureVars, path, selected, k, history, fs0,
                   output_path, temp_path, outcome, invoked>>

\* a file at the temp path, the operator chose Overwrite: remove_file fails
TempRemoveError ==
    /\ pc = "check_temp"
    /\ Exists(fs, Unwrap(temp_path))
    /\ trace' = Append(trace, "CheckTempCollision")
    /\ prompts' = Append(prompts, [about |-> "temp", choice |-> "Overwrite"])
    /\ Returns(Err(IoErrorText))
    /\ UNCHANGED <<enumVars, pureVars, path, selected, fs, fs0, output_path,
                   temp_path, invoked>>

\* TempAbort with the stale file removed before the answer is looked at
TempAbortRemoves ==
    /\ pc = "check_temp"
    /\ Exists(fs, Unwrap(temp_path))
    /\ trace' = Append(trace, "CheckTempCollision")
    /\ prompts' = Append(prompts, [about |-> "temp", choice |-> "Abort"])
    /\ fs' = RemoveFile(fs, Unwrap(temp_path))
    /\ Returns(Err(MsgTempExists \o Unwrap(temp_path)))
    /\ UNCHANGED <<enumVars, pureVars, path, selected, fs0, output_path,
                   temp_path, invoked>>

\* a file at the temp path, and the operator chose Abort
TempAbort ==
    /\ pc = "check_temp"
    /\ Exists(fs, Unwrap(temp_path))
    /\ trace' = Append(trace, "CheckTempCollision")
    /\ prompts' = Append(prompts, [about |-> "temp", choice |-> "Abort"])
    /\ Returns(Err(MsgTempExists \o Unwrap(temp_path)))
    /\ UNCHANGED <<enumVars, pureVars, path, selected, fs, fs0, output_path,
                   temp_path, invoked>>

\* a file at the temp path, and the operator made no selection
\* TempCancelled taking Overwrite as the default when nothing was selected
TempCancelledOverwrites ==
    /\ pc = "check_temp"
    /\ Exists(fs, Unwrap(temp_path))
    /\ trace' = Append(trace, "CheckTempCollision")
    /\ prompts' = Append(prompts, [about |-> "temp", choice |-> "none"])
    /\ fs' = RemoveFile(fs, Unwrap(temp_path))
    /\ pc' = "invoking"
    /\ UNCHANGED <<enumVars, pureVars, path, selected, k, history, fs0,
                   output_path, temp_path, outcome, invoked>>

TempCancelled ==
    /\ pc = "check_temp"
    /\ Exists(fs, Unwrap(temp_path))
    /\ trace' = Append(trace, "CheckTempCollision")
    /\ prompts' = Append(prompts, [about |-> "temp", choice |-> "none"])
    /\ Returns(Err(PickErrorText))
    /\ UNCHANGED <<enumVars, pureVars, path, selected, fs, fs0, output_path,
                   temp_path, invoked>>

\* the extraction command as built for the track of the call in progress
Command(status, stderr, left) ==
    [input |-> path,
     selector |-> Selector(Track),
     format |-> ContainerFormat(Track.format),
     output |-> Unwrap(temp_path),
     status |-> status,
     stderr |-> stderr,
     left |-> left]

\* cmd.output() fails: the command could not be run
InvokeSpawnError ==
    /\ pc = "invoking"
    /\ trace' = Append(trace, "Invoking")
    /\ Returns(Err(IoErrorText))
    /\ UNCHANGED <<enumVars, pureVars, path, selected, fs, fs0, output_path,
                   temp_path, prompts, invoked>>

\* the command read the source, wrote the stream to the temp path and exited
\* with success
InvokeSuccess ==
    /\ pc = "invoking"
    /\ Exists(fs, path)
    /\ trace' = Append(trace, "Invoking")
    /\ fs' = Put(fs, Unwrap(temp_path), Extracted(Selector(Track)))
    /\ invoked' = Append(invoked,
            Command("success", <<>>, FileAt(fs', Unwrap(temp_path))))
    /\ pc' = "rename"
    /\ UNCHANGED <<enumVars, pureVars, path, selected, k, history, fs0,
                   output_path, temp_path, outcome, prompts>>

\* InvokeFailure with a cleanup: the temp file is removed before the error is
\* returned
InvokeFailureCleansUp ==
    /\ pc = "invoking"
    /\ trace' = trace \o <<"Invoking", "ExternalFailure">>
    /\ \E after \in {fs, Put(fs, Unwrap(temp_path), Partial)} :
        /\ fs' = RemoveFile(after, Unwrap(temp_path))
        /\ invoked' = Append(invoked,
                Command("failure", StderrText, FileAt(after, Unwrap(temp_path))))
    /\ Returns(Err(MsgExtractFailed \o StderrText))
    /\ UNCHANGED <<enumVars, pureVars, path, selected, fs0, output_path,
                   temp_path, prompts>>

\* InvokeFailure without the test of the exit status: the call goes on to the
\* rename
InvokeFailureUnchecked ==
    /\ pc = "invoking"
    /\ trace' = Append(trace, "Invoking")
    /\ \E after \in {fs, Put(fs, Unwrap(temp_path), Partial)} :
        /\ fs' = after
        /\ invoked' = Append(invoked,
                Command("failure", StderrText, FileAt(after, Unwrap(temp_path))))
    /\ pc' = "rename"
    /\ UNCHANGED <<enumVars, pureVars, path, selected, k, history, fs0,
                   output_path, temp_path, outcome, prompts>>

\* the command exited with failure, having written nothing or part of its output:
\* the call returns the error, the temp path is left as the command left it
InvokeFailure ==
    /\ pc = "invoking"
    /\ trace' = trace \o <<"Invoking", "ExternalFailure">>
    /\ \E after \in {fs, Put(fs, Unwrap(temp_path), Partial)} :
        /\ fs' = after
        /\ invoked' = Append(invoked,
                Command("failure", StderrText, FileAt(after, Unwrap(temp_path))))
    /\ Returns(Err(MsgExtractFailed \o StderrText))
    /\ UNCHANGED <<enumVars, pureVars, path, selected, fs0, output_path,
                   temp_path, prompts>>

\* RenameTemp copying instead of renaming: the temp file stays behind
RenameTempCopies ==
    /\ pc = "rename"
    /\ Exists(fs, Unwrap(temp_path))
    /\ trace' = Append(trace, "Renamed")
    /\ fs' = Put(fs, Unwrap(output_path), fs[Unwrap(temp_path)])
    /\ Returns(Ok(Some(Unwrap(output_path))))
    /\ UNCHANGED <<enumVars, pureVars, path, selected, fs0, output_path,
                   temp_path, prompts, invoked>>

\* fs::rename(&temp_path, &output_path) succeeds: Ok(Some(output_path))
RenameTemp ==
    /\ pc = "rename"
    /\ Exists(fs, Unwrap(temp_path))
    /\ trace' = Append(trace, "Renamed")
    /\ fs' = RenameFile(fs, Unwrap(temp_path), Unwrap(output_path))
    /\ Returns(Ok(Some(Unwrap(output_path))))
    /\ UNCHANGED <<enumVars, pureVars, path, selected, fs0, output_path,
                   temp_path, prompts, invoked>>

\* fs::rename fails: both paths stay as they were
RenameError ==
    /\ pc = "rename"
    /\ trace' = Append(trace, "RenameError")
    /\ Returns(Err(IoErrorText))
    /\ UNCHANGED <<enumVars, pureVars, path, selected, fs, fs0, output_path,
                   temp_path, prompts, invoked>>

Next ==
    \/ PickNoTracks
    \/ PickCancelled
    \/ PickTracks
    \/ BeginExtract
    \/ FinalExistsError
    \/ FinalAbsent
    \/ FinalOverwrite
    \/ FinalSkip
    \/ FinalCancelled
    \/ TempExistsError
    \/ TempAbsent
    \/ TempOverwrite
    \/ TempRemoveError
    \/ TempAbort
    \/ TempCancelled
    \/ InvokeSpawnError
    \/ InvokeSuccess
    \/ InvokeFailure
    \/ RenameTemp
    \/ RenameError

Spec == Init /\ [][Next]_vars

-----------------------------------------------------------------------------
(* Properties of extract_subtitle_track, checked under Spec *)

\* "movie.0.eng.srt"
NameMovie0EngSrt ==
    <<"m","o","v","i","e",".","0",".","e","n","g",".","s","r","t">>

\* "output.srt"
NameOutputSrt ==
    <<"o","u","t","p","u","t",".","s","r","t">>

\* a call of extract_subtitle_track has begun (and may have returned)
InCall == IsSome(output_path)

\* the call begun last has returned
CallReturned == InCall /\ IsSome(outcome)

\* the call begun last returned Ok(Some(path)): the rename was done
Produced == CallReturned /\ Unwrap(outcome).ok /\ IsSome(Unwrap(outcome).val)

\* the track of the call that returned last
ReturnedTrack == selected[k]

LastCommand == invoked[Len(invoked)]

CommandSucceeded == invoked # <<>> /\ LastCommand.status = "success"

CommandFailed == invoked # <<>> /\ LastCommand.status = "failure"

Asked(about, choice) ==
    \E n \in 1..Len(prompts) : prompts[n] = [about |-> about, choice |-> choice]

\* C2: until the call has returned the produced path, the final output path
\* holds exactly what it held when the call started, in every state of the call
\* and also after the operator chose Overwrite.
C2_FinalUntouchedBeforeRename ==
    (InCall /\ ~Produced) =>
        FileAt(fs, Unwrap(output_path)) = FileAt(fs0, Unwrap(output_path))

\* C2 witness: the operator chose Overwrite for an existing output, the external
\* command failed, and the old output is still in place.
C2_Witness ==
    /\ CallReturned
    /\ Asked("final", "Overwrite")
    /\ CommandFailed
    /\ FileAt(fs, Unwrap(output_path)) = Some(OldOutput)

C4_FailureKeepsTemp ==
    (CallReturned /\ CommandFailed) =>
        /\ ~Unwrap(outcome).ok
        /\ Contains(Unwrap(outcome).msg, LastCommand.stderr)
        /\ \A n \in 1..Len(trace) : trace[n] # "Renamed"
        /\ FileAt(fs, Unwrap(output_path)) = FileAt(fs0, Unwrap(output_path))
        /\ FileAt(fs, Unwrap(temp_path)) = LastCommand.left

\* C4 witness: the command failed after writing part of its output, and the call
\* returned with that partial file at the temp path.
C4_Witness ==
    /\ CallReturned
    /\ CommandFailed
    /\ FileAt(fs, Unwrap(temp_path)) = Some(Partial)

\* C5: when the final output exists and the operator chooses Skip, the call
\* returns Ok(None) with every file as it was; the temp path was not examined and
\* the external command was not run.
C5_SkipTouchesNothing ==
    (CallReturned /\ Asked("final", "Skip")) =>
        /\ outcome = Some(Ok(None))
        /\ fs = fs0
        /\ trace = <<"Start", "CheckFinalCollision">>
        /\ temp_path = None
        /\ invoked = <<>>

\* C5 witness: a call skipped an existing output while a stale temp file was
\* lying in the directory.
C5_Witness ==
    /\ CallReturned
    /\ Asked("final", "Skip")
    /\ Exists(fs, TempName(ReturnedTrack))
    /\ FileAt(fs, Unwrap(output_path)) = Some(OldOutput)

\* C6: when the temp path exists and the operator chooses Abort, the call fails
\* with the error naming the temp path, the external command was not run, and
\* the stale temp file and the final output are as they were.
C6_AbortLeavesFiles ==
    (CallReturned /\ Asked("temp", "Abort")) =>
        /\ outcome = Some(Err(MsgTempExists \o TempName(ReturnedTrack)))
        /\ invoked = <<>>
        /\ fs = fs0
        /\ Exists(fs, TempName(ReturnedTrack))
        /\ FileAt(fs, TempName(ReturnedTrack)) = FileAt(fs0, TempName(ReturnedTrack))

\* C6 witness: with an old output and a stale output.srt in place, the operator
\* chose Overwrite for the output and Abort for the temp file.
C6_Witness ==
    /\ CallReturned
    /\ Asked("final", "Overwrite")
    /\ Asked("temp", "Abort")
    /\ Contains(Unwrap(outcome).msg, NameOutputSrt)
    /\ FileAt(fs, Unwrap(output_path)) = Some(OldOutput)
    /\ FileAt(fs, NameOutputSrt) = Some(StaleTemp)

\* the track of the call in progress or, once it returned, of the call that returned
CallTrack == IF IsSome(outcome) THEN selected[k] ELSE selected[k + 1]

\* the position of a track in the list enumerate_subtitle_tracks returned
PositionOf(track) == CHOOSE p \in 1..Len(result) : result[p] = track

\* the presentation index of a track, as text: its 0-based position in the list
PresentationIndex(track) == <<Digits[PositionOf(track)]>>

C12_SourceNeverTouched ==
    /\ FileAt(fs, path) = Some(Media)
    /\ output_path # Some(path)
    /\ temp_path # Some(path)

\* a path relative to the source's directory that names a file of that directory
\* itself: it has no path separator
InSourceDirectory(name) == \A n \in 1..Len(name) : name[n] # "/"

\* C13: every path a call checks, deletes, writes or renames (the final path, the
\* temp path, the input and the output of the command) names a file of the
\* source file's own directory, whatever language tag and title the track has.
C13_StaysInSourceDirectory ==
    /\ IsSome(output_path) => InSourceDirectory(Unwrap(output_path))
    /\ IsSome(temp_path) => InSourceDirectory(Unwrap(temp_path))
    /\ \A n \in 1..Len(invoked) :
            /\ InSourceDirectory(invoked[n].input)
            /\ InSourceDirectory(invoked[n].output)

\* the final file name with the language and title components left out when the
\* value is absent or empty
NameOmittingEmpty(p, track) ==
    LET base == FileStem(p) \o <<".">> \o DecimalString(track.stream_index)
        lang == IF IsSome(track.lang) /\ Unwrap(track.lang) # <<>>
                THEN <<".">> \o Unwrap(track.lang)
                ELSE <<>>
        title == IF IsSome(track.title) /\ Sanitize(Unwrap(track.title)) # <<>>
                 THEN <<".">> \o Sanitize(Unwrap(track.title))
                 ELSE <<>>
    IN  base \o lang \o title \o <<".">> \o ExtensionForFormat(track.format)

\* C14: the final file name of a call is <stem>.<index>[.<lang>][.<title>].<ext>,
\* where the language and the sanitized title appear, each behind its own dot,
\* only when present and not empty.
C14_NameOmitsEmptyComponents ==
    InCall => Unwrap(output_path) = NameOmittingEmpty(path, CallTrack)

-----------------------------------------------------------------------------
(* Properties of the header fields, checked under SpecEnum *)

\* C15: every track of a returned list has a non-empty format.
C15_FormatNeverEmpty ==
    ReturnedOk => \A n \in 1..Len(Unwrap(ret).val) : Unwrap(ret).val[n].format # <<>>

\* the text between the first '(' and the next ')' of the part of a header line
\* before its first "Subtitle:"; None when that part has no '('
TagBeforeMarker(line) ==
    LET before == SubSeq(line, 1, Find(line, SubtitleMarker) - 1)
        open == Find(before, <<"(">>)
        inside == SubSeq(before, open + 1, Len(before))
    IN  IF open = 0 THEN None
        ELSE Some(SubSeq(inside, 1, Find(inside, <<")">>) - 1))

\* C16: the language of the n-th returned track is the parenthesized tag that
\* follows the numeric prefix of the n-th header, and is absent when the header
\* has no parenthesis before "Subtitle:", whatever parentheses follow "Subtitle:".
C16_LangFromTagBeforeMarker ==
    ReturnedOk =>
        \A n \in 1..Len(Unwrap(ret).val) :
            Unwrap(ret).val[n].lang = TagBeforeMarker(lines[NthHeader(lines, n)])

\* C16 witness: a header with "(eng)" before and "(default)" after "Subtitle:", a
\* header with a parenthesis only after "Subtitle:", and one without parentheses
\* came back with the languages eng, none and none.
C16_Witness ==
    /\ ReturnedOk
    /\ lines = <<LineSubEng, LineParenFormat, LineSubPgs>>
    /\ Unwrap(ret).val[1].lang = Some(<<"e","n","g">>)
    /\ Unwrap(ret).val[2].lang = None
    /\ Unwrap(ret).val[3].lang = None

-----------------------------------------------------------------------------
(* The pure helpers, applied to arbitrary text *)

\* the characters of the texts: the eight forbidden ones and some others
TextAlphabet == ForbiddenChars \cup {"a", "s", "_", "?", "."}

\* the format names the code knows, and near misses: "Subrip", "ASS", "subrip ",
\* "pgs"
FormatTexts ==
    { FormatSubrip, FormatAss, FormatPgs, FormatPgssub,
      <<"S","u","b","r","i","p">>, <<"A","S","S">>,
      <<"s","u","b","r","i","p"," ">>, <<"p","g","s">> }

TextInputs ==
    UNION {[1..n -> TextAlphabet] : n \in 0..MaxTextLen} \cup FormatTexts

\* a call of a helper: its name, its argument and what it returned
Applied(fn, of, val) == [fn |-> fn, of |-> of, val |-> val]

InitPure ==
    /\ arg \in TextInputs
    /\ out = None
    /\ lines = <<>>
    /\ i = 0
    /\ current = None
    /\ result = <<>>
    /\ ret = None
    /\ epc = "idle"
    /\ probe_status = None
    /\ path = <<>>
    /\ selected = <<>>
    /\ k = 0
    /\ pc = "idle"
    /\ fs = <<>>
    /\ fs0 = <<>>
    /\ output_path = None
    /\ temp_path = None
    /\ outcome = None
    /\ prompts = <<>>
    /\ invoked = <<>>
    /\ trace = <<>>
    /\ history = <<>>

\* extension_for_format(arg)
CallExtensionForFormat ==
    /\ out = None
    /\ out' = Some(Applied("extension_for_format", arg, ExtensionForFormat(arg)))
    /\ UNCHANGED <<arg, enumVars, extractVars>>

\* sanitize_to_windows_path_characters(arg)
CallSanitize ==
    /\ out = None
    /\ out' = Some(Applied("sanitize", arg, Sanitize(arg)))
    /\ UNCHANGED <<arg, enumVars, extractVars>>

\* sanitize_to_windows_path_characters applied to what it returned
CallSanitizeAgain ==
    /\ IsSome(out)
    /\ Unwrap(out).fn = "sanitize"
    /\ out' = Some(Applied("sanitize again", Unwrap(out).val,
                           Sanitize(Unwrap(out).val)))
    /\ UNCHANGED <<arg, enumVars, extractVars>>

NextPure ==
    \/ CallExtensionForFormat
    \/ CallSanitize
    \/ CallSanitizeAgain

SpecPure == InitPure /\ [][NextPure]_vars

\* C17: extension_for_format returns a non-empty extension for every text:
\* "srt" for "subrip", "ass" for "ass", "sup" for "hdmv_pgs_subtitle" and
\* "pgssub", and "sub" for every other text, near misses in case or spacing
\* included.
C17_ExtensionTotalAndExact ==
    (IsSome(out) /\ Unwrap(out).fn = "extension_for_format") =>
        LET fmt == Unwrap(out).of
            ext == Unwrap(out).val
        IN  /\ ext # <<>>
            /\ ext = IF fmt = <<"s","u","b","r","i","p">> THEN <<"s","r","t">>
                     ELSE IF fmt = <<"a","s","s">> THEN <<"a","s","s">>
                     ELSE IF fmt \in {<<"h","d","m","v","_","p","g","s","_",
                                        "s","u","b","t","i","t","l","e">>,
                                      <<"p","g","s","s","u","b">>}
                          THEN <<"s","u","p">>
                     ELSE <<"s","u","b">>

\* C17 witness: the helper was applied to "pgssub" and returned "sup".
C17_Witness ==
    /\ IsSome(out)
    /\ Unwrap(out).fn = "extension_for_format"
    /\ Unwrap(out).of = <<"p","g","s","s","u","b">>
    /\ Unwrap(out).val = <<"s","u","p">>

\* C18: sanitize_to_windows_path_characters returns a text of the same length
\* that has '_' where the argument has one of / \ : * " < > | and the argument's
\* character everywhere else; applied to its own result it changes nothing.
C18_SanitizeKeepsLengthIdempotent ==
    IsSome(out) =>
        LET of == Unwrap(out).of
            val == Unwrap(out).val
        IN  /\ Unwrap(out).fn = "sanitize" =>
                /\ Len(val) = Len(of)
                /\ \A n \in 1..Len(of) :
                        val[n] = IF of[n] \in {"/", "\\", ":", "*", "\"", "<", ">", "|"}
                                 THEN "_"
                                 ELSE of[n]
            /\ Unwrap(out).fn = "sanitize again" => val = of

\* C18 witness: "/a|" became "_a_", and sanitizing "_a_" returned "_a_".
C18_Witness ==
    /\ IsSome(out)
    /\ arg = <<"/","a","|">>
    /\ Unwrap(out).fn = "sanitize again"
    /\ Unwrap(out).of = <<"_","a","_">>
    /\ Unwrap(out).val = <<"_","a","_">>

-----------------------------------------------------------------------------
(* Properties of a whole run, checked under Spec *)

\* a call is in progress: it was started and has not returned
Extracting == pc \notin {"pick", "idle", "failed", "finished"}

\* C19: the calls of a run are made one at a time in selection order: the call
\* in progress is for the track after the ones whose calls returned.  A call
\* that returned an error is the last call of the run and leaves the run
\* failed; a call that returned Ok, skipped or not, is followed by the next
\* track; the run finishes only when every selected track had its call.  The
\* output of every earlier call that produced one is still in the directory
\* with what the command extracted for that track.
C19_SequentialUntilFirstError ==
    /\ Len(history) = k
    /\ k <= Len(selected)
    /\ Extracting =>
            /\ k < Len(selected)
            /\ output_path = Some(OutputName(path, selected[k + 1]))
    /\ \A j \in 1..Len(history) :
            /\ ~history[j].ok => (j = Len(history) /\ pc = "failed")
            /\ (history[j].ok /\ j = Len(history) /\ j < Len(selected)) =>
                    pc \notin {"finished", "failed"}
            /\ (history[j].ok /\ IsSome(history[j].val)) =>
                    /\ history[j].val = Some(OutputName(path, selected[j]))
                    /\ FileAt(fs, Unwrap(history[j].val)) =
                            Some(Extracted(Selector(selected[j])))
    /\ pc = "finished" =>
            /\ k = Len(selected)
            /\ \A j \in 1..Len(history) : history[j].ok
    /\ (pc = "idle" /\ selected # <<>>) => k < Len(selected)

\* C19 witness: of two selected tracks the first was extracted and the second
\* failed in the external command; the run is over and the first output is there.
C19_Witness ==
    /\ pc = "failed"
    /\ Len(selected) = 2
    /\ Len(history) = 2
    /\ history[1].ok
    /\ IsSome(history[1].val)
    /\ ~history[2].ok
    /\ CommandFailed
    /\ Exists(fs, OutputName(path, selected[1]))

\* C20: when the operator makes no selection at the final-collision or the
\* temp-collision prompt, the call has returned an error, the directory is as
\* it was when the call started, and the external command was not run.
C20_NoSelectionIsError ==
    (InCall /\ (Asked("final", "none") \/ Asked("temp", "none"))) =>
        /\ IsSome(outcome)
        /\ ~Unwrap(outcome).ok
        /\ fs = fs0
        /\ invoked = <<>>

\* C20 witness: the operator chose Overwrite for an old output and then made no
\* selection at the prompt about a stale temp file; both files are still there.
C20_Witness ==
    /\ CallReturned
    /\ Asked("final", "Overwrite")
    /\ Asked("temp", "none")
    /\ FileAt(fs, Unwrap(output_path)) = Some(OldOutput)
    /\ FileAt(fs, Unwrap(temp_path)) = Some(StaleTemp)

-----------------------------------------------------------------------------
(* The probing command and the empty track list *)

\* C21: what enumerate_subtitle_tracks returns is determined by the captured
\* text alone: whatever the exit status of the probing command was, zero or
\* not, the call returns what parsing the text gives, and so never fails on a
\* text without a malformed header.
C21_ExitStatusIgnored ==
    Returned =>
        /\ IsSome(probe_status)
        /\ ret = Some(Enumerate(lines))
        /\ NoMalformedHeader => Unwrap(ret).ok

\* C21 witness: the probing command exited with status 1 and the call returned
\* the two tracks of its text.
C21_Witness ==
    /\ ReturnedOk
    /\ probe_status = Some(1)
    /\ Len(Unwrap(ret).val) = 2

\* C22: when enumeration returned an empty track list, pick_subtitle_tracks
\* fails with the "No subtitle tracks found" error: no prompt was shown, nothing
\* is selected, no extraction call was started and the directory is untouched.
C22_NoTracksFailsBeforePrompt ==
    result = <<>> =>
        /\ prompts = <<>>
        /\ selected = <<>>
        /\ ~InCall
        /\ invoked = <<>>
        /\ fs = fs0
        /\ pc # "pick" =>
                /\ pc = "failed"
                /\ IsSome(outcome)
                /\ ~Unwrap(outcome).ok
                /\ StartsWith(Unwrap(outcome).msg,
                              <<"N","o"," ","s","u","b","t","i","t","l","e"," ",
                                "t","r","a","c","k","s"," ","f","o","u","n","d">>)

\* C22 witness: a text with a Video stream only gave no tracks and the pick failed.
C22_Witness ==
    /\ lines = <<LineVideo, LineMetadata>>
    /\ result = <<>>
    /\ pc = "failed"
    /\ prompts = <<>>
    /\ Contains(Unwrap(outcome).msg, path)

-----------------------------------------------------------------------------
(* The order of the steps of one extraction, checked under Spec *)

\* the steps up to the invocation of the external command, in order
StepsToInvocation ==
    <<"Start", "CheckFinalCollision", "CheckTempCollision", "Invoking">>

\* the steps that end a call after the invocation
StepsAfterInvocation == {"Renamed", "ExternalFailure", "RenameError"}

IsPrefix(s, t) == Len(s) <= Len(t) /\ s = SubSeq(t, 1, Len(s))

\* C23: the steps of a call come in the order Start, CheckFinalCollision,
\* CheckTempCollision, Invoking and then one closing step.  The prompt about the
\* temp file comes after the final collision was decided for going on; the
\* command is invoked at most once, and only after both checks passed; the
\* rename is done only after that invocation exited with success.
C23_StepsInOrder ==
    InCall =>
        /\ \/ IsPrefix(trace, StepsToInvocation)
           \/ /\ Len(trace) = Len(StepsToInvocation) + 1
              /\ IsPrefix(StepsToInvocation, trace)
              /\ trace[Len(trace)] \in StepsAfterInvocation
        /\ \A a, b \in 1..Len(prompts) :
                (prompts[a].about = "temp" /\ prompts[b].about = "final") =>
                    (b < a /\ prompts[b].choice = "Overwrite")
        /\ IsSome(temp_path) => Len(trace) >= 2
        /\ Len(invoked) <= 1
        /\ invoked # <<>> =>
                /\ IsPrefix(StepsToInvocation, trace)
                /\ \A n \in 1..Len(prompts) : prompts[n].choice = "Overwrite"
        /\ \A n \in 1..Len(trace) :
                trace[n] \in {"Renamed", "RenameError"} =>
                    (Len(invoked) = 1 /\ invoked[1].status = "success")
        /\ \A n \in 1..Len(trace) :
                trace[n] = "ExternalFailure" =>
                    (Len(invoked) = 1 /\ invoked[1].status = "failure")

\* C23 witness: a call went through both collision prompts with Overwrite, one
\* invocation and the rename.
C23_Witness ==
    /\ CallReturned
    /\ trace = StepsToInvocation \o <<"Renamed">>
    /\ Len(prompts) = 2
    /\ Len(invoked) = 1
    /\ Produced

\* C24: when the operator chose Overwrite at the temp prompt, the temp path does
\* not exist when the command is about to be invoked, and the final output of a
\* call that succeeded holds what this invocation extracted, not the stale
\* content.
C24_OverwriteDeletesStaleTemp ==
    (InCall /\ Asked("temp", "Overwrite")) =>
        /\ pc = "invoking" => ~Exists(fs, Unwrap(temp_path))
        /\ Produced =>
                /\ CommandSucceeded
                /\ FileAt(fs, Unwrap(output_path)) = LastCommand.left
                /\ FileAt(fs, Unwrap(output_path)) =
                        Some(Extracted(Selector(ReturnedTrack)))
                /\ FileAt(fs, Unwrap(output_path)) # Some(StaleTemp)

\* C24 witness: a stale temp file was in the directory at the start of a call,
\* the operator chose Overwrite, and the call produced the extracted stream.
C24_Witness ==
    /\ Produced
    /\ Asked("temp", "Overwrite")
    /\ FileAt(fs0, Unwrap(temp_path)) = Some(StaleTemp)
    /\ ~Exists(fs, Unwrap(temp_path))
    /\ FileAt(fs, Unwrap(output_path)) = Some(Extracted(Selector(ReturnedTrack)))

\* the name a temp file of a track's extension has: "output.<ext>"
StaleName(track) ==
    <<"o","u","t","p","u","t",".">> \o ExtensionForFormat(track.format)

\* C25: the temp path of a call is "output.<ext>", whatever the index, language
\* and title of its track.  When a file of that name was in the directory at
\* the start of the call, the command is invoked, and the temp file renamed to
\* the final output, only after the operator chose Overwrite at the temp
\* prompt; the final output is then never the stale content.
C25_StaleTempDetected ==
    InCall =>
        /\ IsSome(temp_path) => Unwrap(temp_path) = StaleName(CallTrack)
        /\ Exists(fs0, StaleName(CallTrack)) =>
                /\ pc \in {"invoking", "rename"} => Asked("temp", "Overwrite")
                /\ invoked # <<>> => Asked("temp", "Overwrite")
                /\ Produced =>
                        /\ Asked("temp", "Overwrite")
                        /\ FileAt(fs, Unwrap(output_path)) # FileAt(fs0, StaleName(CallTrack))

\* C25 witness: a stale output.srt was found by the call for the second subrip
\* track of a file (index 1); the operator chose Overwrite and the command ran.
C25_Witness ==
    /\ InCall
    /\ CallTrack.stream_index = 1
    /\ CallTrack.format = FormatSubrip
    /\ FileAt(fs0, <<"o","u","t","p","u","t",".","s","r","t">>) = Some(StaleTemp)
    /\ Asked("temp", "Overwrite")
    /\ invoked # <<>>

-----------------------------------------------------------------------------
(* Frame conditions of enumerate_subtitle_tracks, checked under SpecEnum *)

\* all tracks parsed so far: the emitted ones and the one in progress
TracksSoFar == Finalize(current, result)

\* a track with its title left out of the comparison
WithoutTitle(track) == [track EXCEPT !.title = None]

\* a track with its stream_index left out of the comparison
WithoutIndex(track) == [track EXCEPT !.stream_index = 0]

\* C26: no step of the call changes the format or lang of a track parsed
\* before, or the title of a track already emitted.  A step on a line that is no
\* subtitle header leaves the emitted tracks alone and changes at most the title
\* of the track in progress; the renumbering pass changes at most stream_index
\* and is the only step that changes it.
C26_FieldsFixedAtHeader ==
    [][/\ Len(TracksSoFar') >= Len(TracksSoFar)
       /\ Len(result') >= Len(result)
       /\ \A n \in 1..Len(TracksSoFar) :
            /\ TracksSoFar'[n].format = TracksSoFar[n].format
            /\ TracksSoFar'[n].lang = TracksSoFar[n].lang
            /\ epc # "renumber" =>
                    TracksSoFar'[n].stream_index = TracksSoFar[n].stream_index
       /\ \A n \in 1..Len(result) : result'[n].title = result[n].title
       /\ (epc = "loop" /\ i < Len(lines) /\ ~IsSubtitleHeader(lines[i + 1])) =>
            /\ result' = result
            /\ IsSome(current') = IsSome(current)
            /\ IsSome(current) =>
                    WithoutTitle(Unwrap(current')) = WithoutTitle(Unwrap(current))
       /\ epc = "renumber" =>
            /\ Len(result') = Len(result)
            /\ \A n \in 1..Len(result) :
                    WithoutIndex(result'[n]) = WithoutIndex(result[n])
      ]_vars

\* C26 witness: a title line came while a track was emitted and another was in
\* progress; the call returned the first track without title and the second with
\* the title, the format and language of their headers, renumbered 0 and 1.
C26_Witness ==
    /\ ReturnedOk
    /\ lines = <<LineSubPgs, LineSubEng, LineTitleEng>>
    /\ Unwrap(ret).val[1] = SubtitleTrack(0, None, FormatPgs, None)
    /\ Unwrap(ret).val[2] =
            SubtitleTrack(1, Some(<<"e","n","g">>), FormatSubrip,
                          Some(<<"E","n","g","l","i","s","h"," ","s","u","b","s">>))

-----------------------------------------------------------------------------
(* The binary's own copy of enumerate_subtitle_tracks, in src/src/main.rs *)

\* "Metadata:"
MetadataKey == <<"M","e","t","a","d","a","t","a",":">>

\* the numeric part of a stream portion: the u32 after its last ':', if any
MainNumericPart(numeric_str) ==
    LET colon_idx == RFind(numeric_str, ":")
        maybe_num == SubSeq(numeric_str, colon_idx + 1, Len(numeric_str))
    IN  IF colon_idx # 0 /\ ParseU32(maybe_num).ok
        THEN Some(ParseU32(maybe_num).val)
        ELSE None

\* the parse of a subtitle header line: Some(track), or None where the code
\* `continue`s
MainParseHeader(line) ==
    LET line_trim == TrimStart(line)
        after_stream == SubSeq(line_trim, Len(StreamMarker) + 1, Len(line_trim))
        colon_pos == Find(after_stream, <<":">>)
        stream_portion == SubSeq(after_stream, 1, colon_pos - 1)
        after_colon == Trim(SubSeq(after_stream, colon_pos + 1, Len(after_stream)))
        par_open == Find(stream_portion, <<"(">>)
        after_paren == SubSeq(stream_portion, par_open + 1, Len(stream_portion))
        cl_par == Find(after_paren, <<")">>)
        lang == IF par_open # 0 THEN Some(SubSeq(after_paren, 1, cl_par - 1))
                ELSE None
        numeric_part == IF par_open # 0
                        THEN MainNumericPart(SubSeq(stream_portion, 1, par_open - 1))
                        ELSE MainNumericPart(stream_portion)
        subtitle_pos == Find(after_colon, SubtitleMarker)
        after_subtitle ==
            Trim(SubSeq(after_colon, subtitle_pos + Len(SubtitleMarker),
                        Len(after_colon)))
    IN  IF colon_pos = 0 THEN None
        ELSE IF par_open # 0 /\ cl_par = 0 THEN None
        ELSE IF subtitle_pos = 0 THEN None
        ELSE Some(SubtitleTrack(IF IsSome(numeric_part) THEN Unwrap(numeric_part)
                                ELSE 0,
                                lang, ParseFormat(after_subtitle), None))

\* the title branch: a line that contains "title", with text after its colon
MainApplyTitle(track, line) ==
    LET colon_pos == Find(line, <<":">>)
        maybe_title == Trim(SubSeq(line, colon_pos + 1, Len(line)))
    IN  IF Contains(line, TitleKey) /\ colon_pos # 0 /\ maybe_title # <<>>
        THEN [track EXCEPT !.title = Some(maybe_title)]
        ELSE track

\* one iteration of the loop
MainLoopBody(st, line) ==
    IF Contains(TrimStart(line), StreamMarker)
    THEN IF Contains(line, SubtitleWord)
         THEN [current |-> MainParseHeader(line),
               result |-> Finalize(st.current, st.result)]
         ELSE [current |-> None, result |-> Finalize(st.current, st.result)]
    ELSE IF StartsWith(TrimStart(line), MetadataKey) THEN st
    ELSE IF IsSome(st.current)
         THEN [current |-> Some(MainApplyTitle(Unwrap(st.current), line)),
               result |-> st.result]
    ELSE st

RECURSIVE MainScan(_, _)
MainScan(ls, n) ==
    IF n = 0 THEN [current |-> None, result |-> <<>>]
    ELSE MainLoopBody(MainScan(ls, n - 1), ls[n])

\* the value the binary's enumerate_subtitle_tracks returns for the lines ls
MainEnumerate(ls) ==
    LET st == MainScan(ls, Len(ls))
    IN  Ok(Finalize(st.current, st.result))

\* two results are the same track list, or both are errors
SameOutcome(a, b) == (a.ok /\ b.ok /\ a.val = b.val) \/ (~a.ok /\ ~b.ok)

\* C27: for every text, the binary's copy of enumerate_subtitle_tracks returns
\* the track list the library's returns (same length, order, stream_index, lang,
\* format and title), or both fail.
C27_BinaryCopyAgrees ==
    Returned => SameOutcome(Unwrap(ret), MainEnumerate(lines))

-----------------------------------------------------------------------------
(* The final names of the tracks of one file, checked under Spec *)

\* C28: two tracks at different positions of the list enumerate_subtitle_tracks
\* returned have different final file names for the same source file, so the
\* outputs two calls of a run produced are two files, each still holding what
\* was extracted for its own track.
C28_DistinctTracksDistinctNames ==
    /\ \A a, b \in 1..Len(result) :
            a # b => OutputName(path, result[a]) # OutputName(path, result[b])
    /\ \A a, b \in 1..Len(history) :
            (/\ a # b
             /\ history[a].ok /\ IsSome(history[a].val)
             /\ history[b].ok /\ IsSome(history[b].val)) =>
                /\ history[a].val # history[b].val
                /\ FileAt(fs, Unwrap(history[a].val)) =
                        Some(Extracted(Selector(selected[a])))
                /\ FileAt(fs, Unwrap(history[b].val)) =
                        Some(Extracted(Selector(selected[b])))

\* C28 witness: a file with two subtitle streams of the same language and
\* format, without titles; both were extracted, to movie.0.eng.srt and
\* movie.1.eng.srt.
C28_Witness ==
    /\ lines = <<LineSubEng, LineSubEng>>
    /\ pc = "finished"
    /\ Len(history) = 2
    /\ FileAt(fs, <<"m","o","v","i","e",".","0",".","e","n","g",".","s","r","t">>)
            = Some(Extracted(<<"0",":","s",":","0">>))
    /\ FileAt(fs, <<"m","o","v","i","e",".","1",".","e","n","g",".","s","r","t">>)
            = Some(Extracted(<<"0",":","s",":","1">>))

=============================================================================
